---- MODULE Spec2Model ----
(***************************************************************************)
(* Conversation state manager of the Discord relay bot: responses.py       *)
(* (transcript, persistence, completion pipeline) driven by the handlers   *)
(* of main.py on discord.py's single-threaded asyncio event loop.          *)
(*                                                                         *)
(* A text (Python str) is a sequence of symbols.  A symbol is a single     *)
(* character where the code looks at characters (whitespace, quotes, the   *)
(* characters of the think tags) and otherwise an opaque chunk of text     *)
(* that holds none of those characters.                                    *)
(***************************************************************************)
EXTENDS Integers, Sequences, FiniteSets, TLC

\* ------------------------------------------------------------------ text

\* str.strip() strips leading and trailing whitespace characters.
IsSpace(c) == c \in {" ", "\n", "\t"}

RECURSIVE lstrip(_)
lstrip(s) == IF s # <<>> /\ IsSpace(Head(s)) THEN lstrip(Tail(s)) ELSE s

RECURSIVE rstrip(_)
rstrip(s) ==
    IF s # <<>> /\ IsSpace(s[Len(s)]) THEN rstrip(SubSeq(s, 1, Len(s) - 1)) ELSE s

\* strip left out (the test "if not user_input").
stripOmitted(s) == s

strip(s) == rstrip(lstrip(s))

\* s.startswith(p)
startswith(s, p) == Len(p) <= Len(s) /\ SubSeq(s, 1, Len(p)) = p

\* s.find(sub): the lowest 0-based index where sub occurs, -1 when it does not.
find(s, sub) ==
    LET hits == {i \in 0..(Len(s) - Len(sub)) : SubSeq(s, i + 1, i + Len(sub)) = sub}
    IN  IF hits = {} THEN -1 ELSE CHOOSE i \in hits : \A j \in hits : i <= j

\* s.replace(old, ""): every non-overlapping occurrence, scanning left to right.
RECURSIVE replace(_, _)
replace(s, old) ==
    IF Len(s) < Len(old) \/ old = <<>> THEN s
    ELSE IF SubSeq(s, 1, Len(old)) = old
         THEN replace(SubSeq(s, Len(old) + 1, Len(s)), old)
         ELSE <<Head(s)>> \o replace(Tail(s), old)

\* Python slices s[:i] and s[i:] for 0 <= i.
Upto(s, i) == SubSeq(s, 1, IF i < Len(s) THEN i ELSE Len(s))
From(s, i) == SubSeq(s, i + 1, Len(s))

\* ------------------------------------------------- messages and directive

ROLE == <<"role">>
CONTENT == <<"content">>
SYSTEM == <<"system">>
USER == <<"user">>
ASSISTANT == <<"assistant">>

\* A dict with str keys and str values is a function from key texts to texts.
Message(role, content) == (ROLE :> role) @@ (CONTENT :> content)

\* The persona text, shortened: its line break and apostrophe are kept because the
\* JSON encoder treats them specially.
DirectiveText == <<"You are William Hartwell", ",", " ", "user", "'", "s", "\n">>

INITIAL_SYSTEM_PROMPT == Message(SYSTEM, DirectiveText)

\* d.get("role") != "system" (None when the key is missing)
RoleIsNotSystem(d) == ~(ROLE \in DOMAIN d /\ d[ROLE] = SYSTEM)

\* ------------------------------------------------------------------ JSON
\* The file is a sequence of JSON tokens.  A punctuation token is [t |-> "p"], a
\* string literal [t |-> "s"] holds the escaped text between its quotes, a number
\* literal is [t |-> "n"], and [t |-> "x"] is text that is no JSON token at all.

P(c) == [t |-> "p", s |-> <<c>>]

\* EscapeSym that writes the quote as it is.
EscapeSymRawQuote(c) ==
    CASE c = "\\" -> <<"\\", "\\">>
      [] c = "\n" -> <<"\\", "n">>
      [] c = "\t" -> <<"\\", "t">>
      [] OTHER -> <<c>>

\* json.dump escapes the quote, the backslash and control characters.
EscapeSym(c) ==
    CASE c = "\"" -> <<"\\", "\"">>
      [] c = "\\" -> <<"\\", "\\">>
      [] c = "\n" -> <<"\\", "n">>
      [] c = "\t" -> <<"\\", "t">>
      [] OTHER -> <<c>>

RECURSIVE Escape(_)
Escape(s) == IF s = <<>> THEN <<>> ELSE EscapeSym(Head(s)) \o Escape(Tail(s))

Lit(s) == [t |-> "s", s |-> Escape(s)]

\* Keys are written in insertion order; the messages the program builds and the
\* files of this model hold "role" before "content".
KeyOrder == <<ROLE, CONTENT>>

RECURSIVE DumpMembers(_, _)
DumpMembers(d, keys) ==
    IF keys = <<>> THEN <<>>
    ELSE <<Lit(Head(keys)), P(":"), Lit(d[Head(keys)])>>
         \o (IF Len(keys) > 1 THEN <<P(",")>> ELSE <<>>)
         \o DumpMembers(d, Tail(keys))

DumpDict(d) ==
    <<P("{")>> \o DumpMembers(d, SelectSeq(KeyOrder, LAMBDA k : k \in DOMAIN d))
    \o <<P("}")>>

RECURSIVE DumpItems(_)
DumpItems(h) ==
    IF h = <<>> THEN <<>>
    ELSE DumpDict(Head(h)) \o (IF Len(h) > 1 THEN <<P(",")>> ELSE <<>>)
         \o DumpItems(Tail(h))

\* json.dump(history, f, indent=4): indentation is whitespace between tokens.
json_dump(h) == <<P("[")>> \o DumpItems(h) \o <<P("]")>>

\* json.load: the decoder's view of an escaped literal; an unknown escape, a raw
\* quote or a raw control character is a JSONDecodeError.
RECURSIVE Unescape(_)
Unescape(s) ==
    IF s = <<>> THEN [ok |-> TRUE, s |-> <<>>]
    ELSE IF Head(s) = "\\"
         THEN IF Len(s) < 2 \/ s[2] \notin {"\"", "\\", "n", "t"}
              THEN [ok |-> FALSE, s |-> <<>>]
              ELSE LET c == CASE s[2] = "n" -> "\n" [] s[2] = "t" -> "\t" [] OTHER -> s[2]
                       r == Unescape(SubSeq(s, 3, Len(s)))
                   IN  [ok |-> r.ok, s |-> <<c>> \o r.s]
         ELSE IF Head(s) \in {"\"", "\n", "\t"}
              THEN [ok |-> FALSE, s |-> <<>>]
              ELSE LET r == Unescape(Tail(s))
                   IN  [ok |-> r.ok, s |-> <<Head(s)>> \o r.s]

\* A parse result: the value read and the index of the token after it.  A value is
\* tagged with its Python type: [k |-> "list" | "dict" | "str" | "num", v |-> ...].
ParseFail == [ok |-> FALSE, val |-> [k |-> "none", v |-> <<>>], next |-> 0]
ParseOk(k, v, next) == [ok |-> TRUE, val |-> [k |-> k, v |-> v], next |-> next]

Tok(toks, i) == IF i \in 1..Len(toks) THEN toks[i] ELSE [t |-> "eof", s |-> <<>>]

\* The members of an object from token i on, after "{"; d holds those read so far.
\* Member values are string literals in every file of this model.
RECURSIVE ParseMembers(_, _, _)
ParseMembers(toks, i, d) ==
    IF Tok(toks, i).t # "s" \/ Tok(toks, i + 1) # P(":") \/ Tok(toks, i + 2).t # "s"
    THEN ParseFail
    ELSE LET key == Unescape(toks[i].s)
             val == Unescape(toks[i + 2].s)
         IN  IF ~key.ok \/ ~val.ok THEN ParseFail
             ELSE LET d2 == (key.s :> val.s) @@ d
                  IN  IF Tok(toks, i + 3) = P(",") THEN ParseMembers(toks, i + 4, d2)
                      ELSE IF Tok(toks, i + 3) = P("}") THEN ParseOk("dict", d2, i + 4)
                      ELSE ParseFail

\* An object, a string or a number starting at token i.
ParseItem(toks, i) ==
    LET tk == Tok(toks, i)
    IN  IF tk = P("{")
        THEN IF Tok(toks, i + 1) = P("}") THEN ParseOk("dict", <<>>, i + 2)
             ELSE ParseMembers(toks, i + 1, <<>>)
        ELSE IF tk.t = "s"
        THEN LET r == Unescape(tk.s)
             IN  IF r.ok THEN ParseOk("str", r.s, i + 1) ELSE ParseFail
        ELSE IF tk.t = "n" THEN ParseOk("num", tk.s, i + 1)
        ELSE ParseFail

\* The elements of an array from token i on, after "["; acc holds those read so far.
RECURSIVE ParseElems(_, _, _)
ParseElems(toks, i, acc) ==
    LET e == ParseItem(toks, i)
    IN  IF ~e.ok THEN ParseFail
        ELSE IF Tok(toks, e.next) = P(",")
             THEN ParseElems(toks, e.next + 1, Append(acc, e.val))
        ELSE IF Tok(toks, e.next) = P("]")
             THEN ParseOk("list", Append(acc, e.val), e.next + 1)
        ELSE ParseFail

\* json.load(f): one JSON value and nothing after it, else JSONDecodeError.
json_load(toks) ==
    LET r == IF Tok(toks, 1) = P("[")
             THEN IF Tok(toks, 2) = P("]") THEN ParseOk("list", <<>>, 3)
                  ELSE ParseElems(toks, 2, <<>>)
             ELSE ParseItem(toks, 1)
    IN  IF r.ok /\ r.next = Len(toks) + 1 THEN r ELSE ParseFail
\* ------------------------------------------------------------ persistence
\* Durable storage at HISTORY_FILE_PATH: kind "absent", "dir" (the path exists but
\* open() raises an OSError, which is IOError) or "file" with its tokens.

NoFile == [kind |-> "absent", toks |-> <<>>]
File(toks) == [kind |-> "file", toks |-> toks]

\* WithPrompt without lines 93-95 and 114-116: a stale directive is left in place.
WithPromptInsertOnly(history) ==
    IF history = <<>> \/ RoleIsNotSystem(history[1])
    THEN <<INITIAL_SYSTEM_PROMPT>> \o history
    ELSE history

\* Lines 90-95 and 111-116: the list with INITIAL_SYSTEM_PROMPT at index 0.
WithPrompt(history) ==
    IF history = <<>> \/ RoleIsNotSystem(history[1])
    THEN <<INITIAL_SYSTEM_PROMPT>> \o history
    ELSE IF history[1] # INITIAL_SYSTEM_PROMPT
         THEN [history EXCEPT ![1] = INITIAL_SYSTEM_PROMPT]
         ELSE history

\* load_history(): raised is TRUE when an exception other than IOError and
\* JSONDecodeError leaves the function (TypeError, KeyError, AttributeError from
\* lines 111-112 on a value that is no list of dicts).
load_history(f) ==
    LET fresh == [raised |-> FALSE, history |-> <<INITIAL_SYSTEM_PROMPT>>]
        crash == [raised |-> TRUE, history |-> <<>>]
    IN  IF f.kind = "absent" THEN fresh
        ELSE IF f.kind = "dir" THEN fresh
        ELSE LET r == json_load(f.toks)
             IN  IF ~r.ok THEN fresh
                 ELSE IF r.val.k # "list" THEN crash
                 ELSE IF r.val.v = <<>> THEN fresh
                 ELSE IF r.val.v[1].k # "dict" THEN crash
                 ELSE [raised |-> FALSE,
                       history |-> WithPrompt([i \in 1..Len(r.val.v) |-> r.val.v[i].v])]

\* save_history called before the assistant message is appended.
save_historyBeforeAppend(history) ==
    json_dump(WithPrompt(SubSeq(history, 1, Len(history) - 1)))

\* What save_history(history) hands to json.dump.
save_history(history) == json_dump(WithPrompt(history))
\* ------------------------------------------------------- completion text

THINK_OPEN == <<"<", "t", "h", "i", "n", "k", ">">>
THINK_CLOSE == <<"<", "/", "t", "h", "i", "n", "k", ">">>

\* clean_response without its trailing strip().
clean_responseUntrimmed(response) == replace(replace(response, THINK_OPEN), THINK_CLOSE)

clean_response(response) == strip(replace(replace(response, THINK_OPEN), THINK_CLOSE))

extract_response_content(response) ==
    LET start_index == find(response, THINK_OPEN)
        end_index == find(response, THINK_CLOSE)
    IN  IF start_index # -1 /\ end_index # -1
        THEN Upto(response, start_index) \o From(response, end_index + Len(THINK_CLOSE))
        ELSE response

\* ------------------------------------------------------ chat_with_history

\* Optional[str]: None, or a str.
None == [some |-> FALSE, s |-> <<>>]
Some(s) == [some |-> TRUE, s |-> s]
Truthy(o) == o.some /\ o.s # <<>>

\* full_user_message with "or" for the "and" of line 181.
full_user_messageEither(user_message, username, content, author) ==
    IF Truthy(content) \/ Truthy(author)
    THEN <<"The user '">> \o username \o <<"' replied to a message by '">> \o author.s
         \o <<"'.", "\n", "Original message: '">> \o content.s
         \o <<"'", "\n", "User's reply: '">> \o user_message \o <<"'">>
    ELSE username \o <<">">> \o user_message

\* Lines 181-188.
full_user_message(user_message, username, content, author) ==
    IF Truthy(content) /\ Truthy(author)
    THEN <<"The user '">> \o username \o <<"' replied to a message by '">> \o author.s
         \o <<"'.", "\n", "Original message: '">> \o content.s
         \o <<"'", "\n", "User's reply: '">> \o user_message \o <<"'">>
    ELSE username \o <<">">> \o user_message

max_history == 20

\* Retain with the slice taken one message too early.
RetainOffByOne(h) ==
    IF Len(h) > max_history + 1
    THEN <<h[1]>> \o SubSeq(h, Len(h) - max_history, Len(h) - 1)
    ELSE h

\* Retain with the test of line 214 one message late.
RetainLate(h) ==
    IF Len(h) > max_history + 2
    THEN <<h[1]>> \o SubSeq(h, Len(h) - max_history + 1, Len(h))
    ELSE h

\* Lines 214-216: chat_history[1:] = chat_history[-max_history:]
Retain(h) ==
    IF Len(h) > max_history + 1
    THEN <<h[1]>> \o SubSeq(h, Len(h) - max_history + 1, Len(h))
    ELSE h

\* Lines 176-179 and 191: the directive check, then the append of the user turn.
AppendUser(h, user_message, username, content, author) ==
    LET e == IF h = <<>> \/ RoleIsNotSystem(h[1]) THEN <<INITIAL_SYSTEM_PROMPT>> \o h
             ELSE IF h[1] # INITIAL_SYSTEM_PROMPT
                  THEN [h EXCEPT ![1] = INITIAL_SYSTEM_PROMPT]
                  ELSE h
    IN  Append(e, Message(USER, full_user_message(user_message, username, content, author)))

\* AppendAssistant with the text of the choice appended as it came.
AppendAssistantUncleaned(h, response) == Retain(Append(h, Message(ASSISTANT, response)))

\* Lines 205-216: clean the first choice, append it, enforce retention.
AppendAssistant(h, response) ==
    Retain(Append(h, Message(ASSISTANT, clean_response(extract_response_content(response)))))

\* OnCompletionFailure with the user turn taken back.
OnCompletionFailureRollback(h) == SubSeq(h, 1, Len(h) - 1)

\* Lines 222-224: the except clause logs and re-raises; the user turn appended at
\* line 191 stays in the list.
OnCompletionFailure(h) == h

\* The texts get_response returns without a reply.
EmptyInputNotice == <<"Empty input.">>
UnexpectedNotice == <<"An unexpected error occurred. Please try again.">>
NoResponseError == <<"No response generated">>
\* Line 255: f"Invalid input: {str(e)}"
InvalidInput(e) == <<"Invalid input: ">> \o e
\* ------------------------------------------------------ main.py: filters
\* Message texts are sequences of characters here: the filters look at letters.

UpperCase == <<"A", "B", "C", "D", "E", "F", "G", "H", "I", "J", "K", "L", "M",
               "N", "O", "P", "Q", "R", "S", "T", "U", "V", "W", "X", "Y", "Z">>
LowerCase == <<"a", "b", "c", "d", "e", "f", "g", "h", "i", "j", "k", "l", "m",
               "n", "o", "p", "q", "r", "s", "t", "u", "v", "w", "x", "y", "z">>
Digits == <<"0", "1", "2", "3", "4", "5", "6", "7", "8", "9">>

\* re.IGNORECASE
Lower(c) ==
    IF \E i \in 1..26 : UpperCase[i] = c
    THEN LowerCase[CHOOSE i \in 1..26 : UpperCase[i] = c]
    ELSE c

\* [\W_]: everything but letters and digits
IsGap(c) ==
    ~\E i \in 1..26 : c = UpperCase[i] \/ c = LowerCase[i] \/ (i <= 10 /\ c = Digits[i])

\* The letters of a pattern l1[\W_]*l2[\W_]*...ln matched from index i of s.
RECURSIVE FuzzyAt(_, _, _)
FuzzyAt(s, i, letters) ==
    IF letters = <<>> THEN TRUE
    ELSE IF i > Len(s) THEN FALSE
    ELSE IF Lower(s[i]) = Head(letters) THEN
            Tail(letters) = <<>>
            \/ \E j \in (i + 1)..Len(s) :
                  /\ \A k \in (i + 1)..(j - 1) : IsGap(s[k])
                  /\ FuzzyAt(s, j, Tail(letters))
    ELSE FALSE

\* re.search of such a pattern
FuzzySearch(s, letters) == \E i \in 1..Len(s) : FuzzyAt(s, i, letters)

\* Lines 289-294 and 407-412.
Prohibited(message) ==
    /\ \/ FuzzySearch(message, <<"g", "f">>)
       \/ FuzzySearch(message, <<"g", "i", "r", "l", "f", "r", "i", "e", "n", "d">>)
    /\ FuzzySearch(message, <<"p", "r", "o", "d", "e", "h">>)

\* s is prefix followed by at least least times the character c.
Repeats(s, prefix, c, least) ==
    /\ startswith(s, prefix)
    /\ Len(s) >= Len(prefix) + least
    /\ \A k \in (Len(prefix) + 1)..Len(s) : s[k] = c

\* Lines 300-301 and 418-419: the filler pattern between ^\s* and \s*$.
Filler(message) ==
    LET w == strip([k \in 1..Len(message) |-> Lower(message[k])])
    IN  \/ Repeats(w, <<"u">>, "m", 1)
        \/ Repeats(w, <<"u">>, "h", 1)
        \/ Repeats(w, <<"h", "m">>, "m", 1)
        \/ Repeats(w, <<"h">>, "m", 1)
        \/ Repeats(w, <<"h", "u">>, "h", 1)
        \/ w \in {<<"o", "k">>, <<"o", "k", "a", "y">>, <<"b", "r", "b">>, <<"i", "d", "k">>}
        \/ Repeats(w, <<"l", "o">>, "l", 1)
        \/ Repeats(w, <<"l", "m", "a">>, "o", 1)
        \/ Repeats(w, <<>>, "?", 1)
        \/ Repeats(w, <<>>, ".", 2)

\* Ignored without the strip() of the text.
IgnoredUntrimmed(message) == startswith(message, <<"!", "i", "g", "n", "o", "r", "e">>)

\* Lines 283 and 402.
Ignored(message) == startswith(strip(message), <<"!", "i", "g", "n", "o", "r", "e">>)
\* ------------------------------------------------------------------ state

MaxEvents == 2
MaxFaults == 2
MaxRestarts == 1

\* The tasks the event loop runs the handlers of inbound events in.
Tasks == {"t1", "t2"}

VARIABLES
    proc,          \* "boot" before responses.py is imported, then "up"; "dead" when
                   \* the import raised
    file,          \* durable storage at HISTORY_FILE_PATH
    chat_history,  \* the module-level list of responses.py
    hs,            \* per task: where its handler stands, and the handler's locals
    running,       \* the task that holds the event loop's thread, or "none"
    nevents,       \* inbound events delivered so far
    nfaults,       \* failures of the completion API, of storage and of fetches so far
    nrestarts,     \* process restarts so far
    api_calls      \* calls of groq_client.chat.completions.create so far

vars == <<proc, file, chat_history, hs, running, nevents, nfaults, nrestarts, api_calls>>

\* ------------------------------------------------------------ environment

Sam == <<"S", "a", "m">>
Bob == <<"B", "o", "b">>
Greeting == <<"y", "o", "\"">>

\* The text of the n-th event's message.
Msg(n) == <<"h", "i", Digits[n + 1]>>

\* The content of the message an event's message replies to: a text for the first
\* delivery, nothing (a message of attachments only) for the later ones.
Original(ev) == IF ev.text = Msg(1) THEN Greeting ELSE <<>>

Event(kind, text, ref, inchan, frombot) ==
    [kind |-> kind, text |-> text, ref |-> ref, inchan |-> inchan, frombot |-> frombot]

NoEvent == Event("none", <<>>, FALSE, FALSE, FALSE)

\* Events that a filter of on_message stops: from another channel, from the bot
\* itself, filler, "!ignore", the prohibited pair, no text.
FilteredEvents ==
    <<Event("on_message", <<"h", "i">>, FALSE, FALSE, FALSE),
      Event("on_message", <<"r", "1">>, FALSE, TRUE, TRUE),
      Event("on_message", <<"o", "k">>, FALSE, TRUE, FALSE),
      Event("on_message", <<" ", "!", "i", "g", "n", "o", "r", "e">>, FALSE, TRUE, FALSE),
      Event("on_message", <<"g", "f", " ", "p", "r", "o", "d", "e", "h">>, FALSE, TRUE, FALSE),
      Event("on_message", <<>>, FALSE, TRUE, FALSE)>>

\* The inbound events the n-th delivery is drawn from: a chat message with or
\* without a reference to an earlier message, a /grandpa command with a text or
\* with blanks only, three of the filtered events in turn, and either a chat
\* message with the "?" prefix (first delivery) or the chat message of the
\* delivery before, sent once more (later deliveries).
Events(n) ==
    {Event("on_message", Msg(n), r, TRUE, FALSE) : r \in BOOLEAN}
    \cup {Event("grandpa", Msg(n), FALSE, TRUE, FALSE),
          Event("grandpa", <<" ">>, FALSE, TRUE, FALSE),
          IF n = 1 THEN Event("on_message", <<"?">> \o Msg(n), FALSE, TRUE, FALSE)
          ELSE Event("on_message", Msg(n - 1), FALSE, TRUE, FALSE)}
    \cup {FilteredEvents[((3 * (n - 1) + j) % Len(FilteredEvents)) + 1] : j \in 0..2}

\* The first choice's text when the n-th completion call answers: with a reasoning
\* block on odd calls, without on even ones.
Completions(n) ==
    IF n % 2 = 1
    THEN {THINK_OPEN \o <<"p">> \o THINK_CLOSE \o <<" ", "r", Digits[n + 1], "\"">>}
    ELSE {<<"r", Digits[n + 1]>>}

\* The pieces a completion text is put together from: the two think tags, a
\* letter, a blank, and the two halves of an opening tag.
Pieces ==
    <<THINK_OPEN, THINK_CLOSE, <<"a">>, <<" ">>, <<"<", "t", "h", "i">>, <<"n", "k", ">">> >>

MaxPieces == 5

RECURSIVE Joined(_)
Joined(n) ==
    IF n = 0 THEN {<<>>}
    ELSE Joined(n - 1) \cup {s \o Pieces[i] : s \in Joined(n - 1), i \in 1..Len(Pieces)}

\* Every completion text of up to MaxPieces pieces.
CleanTexts == Joined(MaxPieces)

\* A transcript of k conversational messages from an earlier run of the program,
\* user and assistant turns alternating.
OldTurns(k) ==
    [i \in 1..k |-> Message(IF i % 2 = 1 THEN USER ELSE ASSISTANT,
                            <<"o", Digits[(i \div 10) + 1], Digits[(i % 10) + 1]>>)]

StalePrompt == Message(SYSTEM, <<"You are Xavier">>)

\* What durable storage holds when the process starts.
InitFiles ==
    {NoFile,
     [kind |-> "dir", toks |-> <<>>],
     File(<<[t |-> "x", s |-> <<"hello">>]>>),
     File(<<P("{"), P("}")>>),
     File(<<Lit(<<"x">>)>>),
     File(<<[t |-> "n", s |-> <<"5">>]>>),
     File(<<P("["), Lit(<<"x">>), P("]")>>),
     File(json_dump(OldTurns(2))),
     File(json_dump(<<StalePrompt>> \o OldTurns(2))),
     File(json_dump(<<INITIAL_SYSTEM_PROMPT>> \o OldTurns(max_history - 1)))}

\* ---------------------------------------------------------------- actions

Idle ==
    [pc |-> "idle", ev |-> NoEvent, um |-> <<>>, content |-> None, author |-> None,
     pre |-> <<>>, out |-> "none", raw |-> <<>>, resp |-> <<>>]

Init ==
    /\ proc = "boot"
    /\ file \in InitFiles
    /\ chat_history = <<>>
    /\ hs = [t \in Tasks |-> Idle]
    /\ running = "none"
    /\ nevents = 0
    /\ nfaults = 0
    /\ nrestarts = 0
    /\ api_calls = 0

\* responses.py line 131, run when main.py imports the module.
Boot ==
    /\ proc = "boot"
    /\ LET r == load_history(file)
       IN  /\ proc' = IF r.raised THEN "dead" ELSE "up"
           /\ chat_history' = r.history
    /\ UNCHANGED <<file, hs, running, nevents, nfaults, nrestarts, api_calls>>

\* The process is stopped and started again: memory is lost, storage is kept.
Restart ==
    /\ proc \in {"up", "dead"}
    /\ nrestarts < MaxRestarts
    /\ proc' = "boot"
    /\ chat_history' = <<>>
    /\ hs' = [t \in Tasks |-> Idle]
    /\ running' = "none"
    /\ nrestarts' = nrestarts + 1
    /\ UNCHANGED <<file, nevents, nfaults, api_calls>>

\* The gateway delivers an event; discord.py schedules its handler as a task (the
\* first free one: which task runs a handler makes no difference).
Deliver(t) ==
    /\ proc = "up"
    /\ hs[t].pc = "idle"
    /\ t = "t1" \/ hs["t1"].pc # "idle"
    /\ nevents < MaxEvents
    /\ \E ev \in Events(nevents + 1) :
          hs' = [hs EXCEPT ![t] = [Idle EXCEPT !.pc = "recv", !.ev = ev]]
    /\ nevents' = nevents + 1
    /\ UNCHANGED <<proc, file, chat_history, running, nfaults, nrestarts, api_calls>>
\* The handler's record after the filters of on_message (lines 401-421) and the
\* entry of send_message (lines 79-84): back to idle, or at the call of get_response.
AfterOnMessageFilters(h, content, author) ==
    LET text == h.ev.text
    IN  IF Ignored(text) \/ Prohibited(text) \/ Filler(text) \/ text = <<>> THEN Idle
        ELSE [h EXCEPT !.pc = "call",
                       !.um = IF startswith(text, <<"?">>) THEN Tail(text) ELSE text,
                       !.content = content,
                       !.author = author]

\* on_message, lines 374-388: up to the await of fetch_message when the message
\* refers to another one, else up to the call of get_response.
OnMessage(t) ==
    /\ proc = "up"
    /\ running = "none"
    /\ hs[t].pc = "recv"
    /\ hs[t].ev.kind = "on_message"
    /\ LET next == IF ~hs[t].ev.inchan \/ hs[t].ev.frombot THEN Idle
                   ELSE IF hs[t].ev.ref THEN [hs[t] EXCEPT !.pc = "fetch"]
                   ELSE AfterOnMessageFilters(hs[t], None, None)
       IN  /\ hs' = [hs EXCEPT ![t] = next]
           /\ running' = IF next.pc = "call" THEN t ELSE "none"
    /\ UNCHANGED <<proc, file, chat_history, nevents, nfaults, nrestarts, api_calls>>

\* on_message, lines 389-424: fetch_message has answered with the message referred
\* to, or has raised NotFound or another error (lines 396-399, orig is None).
FetchDone(t) ==
    /\ proc = "up"
    /\ running = "none"
    /\ hs[t].pc = "fetch"
    /\ \E orig \in {None, Some(Original(hs[t].ev))} :
          /\ ~orig.some => nfaults < MaxFaults
          /\ nfaults' = IF orig.some THEN nfaults ELSE nfaults + 1
          /\ LET next == AfterOnMessageFilters(hs[t], orig,
                                               IF orig.some THEN Some(Bob) ELSE None)
             IN  /\ hs' = [hs EXCEPT ![t] = next]
                 /\ running' = IF next.pc = "call" THEN t ELSE "none"
    /\ UNCHANGED <<proc, file, chat_history, nevents, nrestarts, api_calls>>

\* grandpa, lines 252-257: up to the await of interaction.response.defer.
Grandpa(t) ==
    /\ proc = "up"
    /\ running = "none"
    /\ hs[t].pc = "recv"
    /\ hs[t].ev.kind = "grandpa"
    /\ hs' = [hs EXCEPT ![t].pc = "defer"]
    /\ UNCHANGED <<proc, file, chat_history, running, nevents, nfaults, nrestarts,
                   api_calls>>

\* grandpa, lines 260-309: a slash command's interaction carries no message, so no
\* reply context is found; then the filters, up to the call of get_response.
GrandpaResume(t) ==
    /\ proc = "up"
    /\ running = "none"
    /\ hs[t].pc = "defer"
    /\ LET text == hs[t].ev.text
           next == IF Ignored(text) \/ Prohibited(text) \/ Filler(text) THEN Idle
                   ELSE [hs[t] EXCEPT !.pc = "call", !.um = text]
       IN  /\ hs' = [hs EXCEPT ![t] = next]
           /\ running' = IF next.pc = "call" THEN t ELSE "none"
    /\ UNCHANGED <<proc, file, chat_history, nevents, nfaults, nrestarts, api_calls>>

\* CompletionYields for an awaited call of an asynchronous client.
CompletionYieldsAwaited == TRUE

\* Whether the thread is given back to the event loop while the completion call is
\* in flight: groq_client is the synchronous Groq client and line 194 has no await.
CompletionYields == FALSE

\* get_response lines 243-252 and chat_with_history lines 171-191: the empty-input
\* return, or the user turn appended and the completion call issued.
GetResponse(t) ==
    /\ proc = "up"
    /\ running = t
    /\ hs[t].pc = "call"
    /\ IF strip(hs[t].um) = <<>>
       THEN /\ hs' = [hs EXCEPT ![t].pc = "ret", ![t].out = "blank",
                                ![t].resp = EmptyInputNotice]
            /\ UNCHANGED <<chat_history, running>>
       ELSE /\ chat_history' = AppendUser(chat_history, hs[t].um, Sam,
                                          hs[t].content, hs[t].author)
            /\ hs' = [hs EXCEPT ![t].pc = "appended", ![t].pre = chat_history]
            /\ running' = IF CompletionYields THEN "none" ELSE t
    /\ UNCHANGED <<proc, file, nevents, nfaults, nrestarts, api_calls>>

\* The task that may take the step that follows the completion call.
AfterCompletion(t) == running = IF CompletionYields THEN "none" ELSE t

\* chat_with_history lines 194-216: the call answers with a choice whose text is one
\* of texts; the cleaned reply is appended and retention enforced.
Replies(t, texts) ==
    /\ proc = "up"
    /\ AfterCompletion(t)
    /\ hs[t].pc = "appended"
    /\ \E response \in texts :
          /\ chat_history' = AppendAssistant(chat_history, response)
          /\ hs' = [hs EXCEPT ![t].pc = "saving",
                              ![t].raw = response,
                              ![t].resp = clean_response(extract_response_content(response))]
    /\ running' = t
    /\ api_calls' = api_calls + 1
    /\ UNCHANGED <<proc, file, nevents, nfaults, nrestarts>>

CompletionReplies(t) == Replies(t, Completions(api_calls + 1))

\* An exception: its class and the text of str(e).
Exception(class, text) == [class |-> class, text |-> text]

\* get_response_except with the clause for ValueError alone: any other exception
\* leaves get_response.
get_response_exceptValueErrorOnly(e) ==
    IF e.class = "ValueError"
    THEN [raised |-> FALSE, text |-> InvalidInput(e.text)]
    ELSE [raised |-> TRUE, text |-> <<>>]

\* get_response lines 254-258: what the except clauses make of an exception that
\* leaves chat_with_history.
get_response_except(e) ==
    [raised |-> FALSE,
     text |-> IF e.class = "ValueError" THEN InvalidInput(e.text) ELSE UnexpectedNotice]

\* chat_with_history lines 194-202 and 222-224, get_response lines 254-258: the call
\* answers without choices (ValueError) or raises.
CompletionFails(t) ==
    /\ proc = "up"
    /\ AfterCompletion(t)
    /\ hs[t].pc = "appended"
    /\ nfaults < MaxFaults
    /\ \E out \in {"empty", "error"} :
          LET e == IF out = "empty" THEN Exception("ValueError", NoResponseError)
                   ELSE Exception("GroqError", <<"Connection error.">>)
              r == get_response_except(e)
          IN  hs' = [hs EXCEPT ![t].pc = "ret",
                               ![t].out = IF r.raised THEN "raised" ELSE out,
                               ![t].resp = r.text]
    /\ chat_history' = OnCompletionFailure(chat_history)
    /\ running' = t
    /\ api_calls' = api_calls + 1
    /\ nfaults' = nfaults + 1
    /\ UNCHANGED <<proc, file, nevents, nrestarts>>
\* save_history lines 94-95 assign to index 0 of the caller's list; line 91 builds a
\* new list and leaves the caller's alone.
SaveInPlace(history) ==
    IF history # <<>> /\ ~RoleIsNotSystem(history[1]) THEN WithPrompt(history) ELSE history

\* How many tokens of the dump are in the file when a write stops part-way:
\* open(path, "w") has emptied the file, json.dump writes it piece by piece.
Cuts(toks) == {0, Len(toks) - 1}

\* chat_with_history lines 218-220, save_history lines 88-98: the file is written.
SaveOk(t) ==
    /\ proc = "up"
    /\ running = t
    /\ hs[t].pc = "saving"
    /\ file.kind # "dir"
    /\ file' = File(save_history(chat_history))
    /\ chat_history' = SaveInPlace(chat_history)
    /\ hs' = [hs EXCEPT ![t].pc = "ret", ![t].out = "ok"]
    /\ UNCHANGED <<proc, running, nevents, nfaults, nrestarts, api_calls>>

\* ReturnAfterIOError without the except clause of save_history: the IOError leaves
\* chat_with_history and get_response answers with its notice (lines 256-258).
ReturnAfterIOErrorUncaught(cleaned_response) == UnexpectedNotice

\* save_history lines 99-100 and chat_with_history line 220: the IOError is logged,
\* save_history returns and chat_with_history returns the cleaned reply.
ReturnAfterIOError(cleaned_response) == cleaned_response

\* save_history lines 96-100: open() or a write raises IOError, which is logged.
SaveFails(t) ==
    /\ proc = "up"
    /\ running = t
    /\ hs[t].pc = "saving"
    /\ file.kind = "dir" \/ nfaults < MaxFaults
    /\ \/ file' = file
       \/ /\ file.kind # "dir"
          /\ \E k \in Cuts(save_history(chat_history)) :
                file' = File(SubSeq(save_history(chat_history), 1, k))
    /\ nfaults' = IF file.kind = "dir" THEN nfaults ELSE nfaults + 1
    /\ chat_history' = SaveInPlace(chat_history)
    /\ hs' = [hs EXCEPT ![t].pc = "ret", ![t].out = "unsaved",
                        ![t].resp = ReturnAfterIOError(hs[t].resp)]
    /\ UNCHANGED <<proc, running, nevents, nrestarts, api_calls>>

\* The process is stopped while json.dump is writing.
KillDuringSave(t) ==
    /\ proc = "up"
    /\ running = t
    /\ hs[t].pc = "saving"
    /\ file.kind # "dir"
    /\ nrestarts < MaxRestarts
    /\ \E k \in Cuts(save_history(chat_history)) :
          file' = File(SubSeq(save_history(chat_history), 1, k))
    /\ proc' = "boot"
    /\ chat_history' = <<>>
    /\ hs' = [u \in Tasks |-> Idle]
    /\ running' = "none"
    /\ nrestarts' = nrestarts + 1
    /\ UNCHANGED <<nevents, nfaults, api_calls>>

\* send_message lines 89-95, grandpa lines 311-316: get_response has returned and
\* the handler awaits the sends of its reply.
Respond(t) ==
    /\ proc = "up"
    /\ running = t
    /\ hs[t].pc = "ret"
    /\ hs' = [hs EXCEPT ![t] = Idle]
    /\ running' = "none"
    /\ UNCHANGED <<proc, file, chat_history, nevents, nfaults, nrestarts, api_calls>>

Next ==
    \/ Boot
    \/ Restart
    \/ \E t \in Tasks : Deliver(t)
    \/ \E t \in Tasks : OnMessage(t)
    \/ \E t \in Tasks : FetchDone(t)
    \/ \E t \in Tasks : Grandpa(t)
    \/ \E t \in Tasks : GrandpaResume(t)
    \/ \E t \in Tasks : GetResponse(t)
    \/ \E t \in Tasks : CompletionReplies(t)
    \/ \E t \in Tasks : CompletionFails(t)
    \/ \E t \in Tasks : SaveOk(t)
    \/ \E t \in Tasks : SaveFails(t)
    \/ \E t \in Tasks : KillDuringSave(t)
    \/ \E t \in Tasks : Respond(t)

Spec == Init /\ [][Next]_vars

\* ------------------------------------------- the cleaning of a completion text

\* A /grandpa command has reached its call of get_response on the transcript of the
\* directive alone; no other event is under way.
InitClean ==
    /\ proc = "up"
    /\ file = NoFile
    /\ chat_history = <<INITIAL_SYSTEM_PROMPT>>
    /\ hs = [t \in Tasks |->
               IF t = "t1"
               THEN [Idle EXCEPT !.pc = "call", !.um = Msg(1),
                                 !.ev = Event("grandpa", Msg(1), FALSE, TRUE, FALSE)]
               ELSE Idle]
    /\ running = "t1"
    /\ nevents = 1
    /\ nfaults = 0
    /\ nrestarts = 0
    /\ api_calls = 0

\* The completion call answers with any text of CleanTexts.
CleanReplies(t) == Replies(t, CleanTexts)

NextClean ==
    \/ \E t \in Tasks : GetResponse(t)
    \/ \E t \in Tasks : CleanReplies(t)
    \/ \E t \in Tasks : SaveOk(t)
    \/ \E t \in Tasks : Respond(t)

SpecClean == InitClean /\ [][NextClean]_vars

\* ----------------------------------------------------------------- claims

\* The user turn the handler of task t appends.
UserTurn(t) ==
    Message(USER, full_user_message(hs[t].um, Sam, hs[t].content, hs[t].author))

\* Task t is between the append of its user turn and the end of its pipeline.
InPipeline(t) == hs[t].pc \in {"appended", "saving"}

\* get_response has returned to task t after a failed completion call.
FailedReturn(t) == hs[t].pc = "ret" /\ hs[t].out \in {"empty", "error"}

\* The file holds a JSON list of objects.
HoldsList(f) ==
    /\ f.kind = "file"
    /\ json_load(f.toks).ok
    /\ json_load(f.toks).val.k = "list"
    /\ \A i \in 1..Len(json_load(f.toks).val.v) : json_load(f.toks).val.v[i].k = "dict"

\* The messages of such a file that follow its directive, if it has one.
Conversational(f) ==
    LET items == [i \in 1..Len(json_load(f.toks).val.v) |-> json_load(f.toks).val.v[i].v]
    IN  IF items # <<>> /\ ROLE \in DOMAIN items[1] /\ items[1][ROLE] = SYSTEM
        THEN Tail(items)
        ELSE items

\* C1: while the process is up the transcript is non-empty and its first message is
\* the configured directive, whatever was loaded and whichever calls succeeded or
\* failed; and a load keeps the conversational messages of the file, in order.
C1_DirectiveInvariant ==
    /\ [](proc = "up" => chat_history # <<>> /\ chat_history[1] = INITIAL_SYSTEM_PROMPT)
    /\ [][(proc = "boot" /\ proc' = "up" /\ HoldsList(file))
            => Tail(chat_history') = Conversational(file)]_vars

\* C1 witness: a transcript loaded from a file with a stale directive, after a
\* failed call has appended to it.
C1_Witness ==
    /\ file = File(json_dump(<<StalePrompt>> \o OldTurns(2)))
    /\ \E t \in Tasks : FailedReturn(t)
    /\ Len(chat_history) = 4
    /\ chat_history[1] = INITIAL_SYSTEM_PROMPT

\* C2: between calls of get_response the transcript holds at most max_history + 1
\* messages, after successful and after failed calls alike.
C2_LengthCap ==
    (proc = "up" /\ \A t \in Tasks : ~InPipeline(t)) => Len(chat_history) <= max_history + 1

\* The transcript as it is before retention, for a call that got its reply.
BeforeRetention(t) ==
    Append(Append(hs[t].pre, UserTurn(t)), Message(ASSISTANT, hs[t].resp))

\* C3: when a successful call leaves more than max_history conversational messages,
\* retention leaves max_history + 1 messages: the directive, then the last
\* max_history messages in their order.
C3_RetentionExact ==
    \A t \in Tasks :
        (hs[t].pc = "saving" /\ Len(BeforeRetention(t)) > max_history + 1) =>
            /\ Len(chat_history) = max_history + 1
            /\ chat_history[1] = INITIAL_SYSTEM_PROMPT
            /\ \A i \in 1..max_history :
                  chat_history[i + 1]
                      = BeforeRetention(t)[Len(BeforeRetention(t)) - max_history + i]

\* C3 witness: a successful call has evicted the oldest message.
C3_Witness ==
    \E t \in Tasks :
        /\ hs[t].pc = "saving"
        /\ Len(BeforeRetention(t)) > max_history + 1
        /\ chat_history[2] # hs[t].pre[2]

\* C4: after a failed completion call the transcript is the one the call found,
\* followed by the user turn; no assistant message is appended.
C4_FailureIsolation ==
    \A t \in Tasks : FailedReturn(t) => chat_history = Append(hs[t].pre, UserTurn(t))

\* C4 witness: a call has failed on a transcript that already held a conversation.
C4_Witness ==
    \E t \in Tasks :
        /\ FailedReturn(t)
        /\ Len(hs[t].pre) > 1
        /\ chat_history[Len(chat_history)][ROLE] = USER

\* C5: a failed completion call, without choices or with an error, returns the one
\* static failure notice, which holds no text of the internal error.
C5_GenericNotice ==
    \A t \in Tasks :
        FailedReturn(t) =>
            /\ hs[t].resp = UnexpectedNotice
            /\ find(hs[t].resp, NoResponseError) = -1

\* An utterance of whitespace only.
IsBlank(s) == \A i \in 1..Len(s) : IsSpace(s[i])

\* C6: get_response on a blank utterance returns the empty-input notice and leaves
\* the transcript, the completion API and the file alone (the step of a task at the
\* call of get_response, unless the process is stopped there).
C6_EmptyInput ==
    [][\A t \in Tasks :
          (hs[t].pc = "call" /\ IsBlank(hs[t].um) /\ hs'[t].pc # "call" /\ proc' = "up") =>
              /\ hs'[t].pc = "ret"
              /\ hs'[t].resp = EmptyInputNotice
              /\ chat_history' = chat_history
              /\ api_calls' = api_calls
              /\ file' = file]_vars

\* C6 witness: get_response has returned for a blank utterance.
C6_Witness ==
    \E t \in Tasks :
        hs[t].pc = "ret" /\ hs[t].um = <<" ">> /\ hs[t].resp = EmptyInputNotice

\* C7: while one task is between the append of its user turn and the end of its
\* pipeline, the transcript and the file change only by steps of that task (or are
\* lost with the process).
C7_Serialized ==
    [][\A t \in Tasks :
          (InPipeline(t) /\ (chat_history' # chat_history \/ file' # file)) =>
              hs'[t] # hs[t] \/ proc' # "up"]_vars

\* C7 witness: one task is in its pipeline while the handler of another event waits
\* for the event loop.
C7_Witness ==
    \E t, u \in Tasks :
        t # u /\ hs[t].pc = "saving" /\ hs[u].pc \in {"recv", "fetch", "defer"}

\* C8: a save that fails or is interrupted leaves the persisted transcript as a load
\* would have read it before.
C8_AtomicSave ==
    [][\A t \in Tasks :
          (hs[t].pc = "saving" /\ (proc' = "boot" \/ hs'[t].out = "unsaved")) =>
              load_history(file') = load_history(file)]_vars

\* C9: load_history never raises, whatever storage holds, and returns the transcript
\* of the directive alone when the file is absent or holds no list of messages.
C9_LoadTotal ==
    [][(proc = "boot" /\ proc' # "boot") =>
          /\ proc' = "up"
          /\ ~HoldsList(file) => chat_history' = <<INITIAL_SYSTEM_PROMPT>>]_vars

\* C10: right after a successful save, a load returns the saved transcript, message
\* for message.
C10_RoundTrip ==
    \A t \in Tasks :
        (hs[t].pc = "ret" /\ hs[t].out = "ok") =>
            load_history(file) = [raised |-> FALSE, history |-> chat_history]

\* C10 witness: a saved transcript with a reply-framed user turn and a cleaned reply,
\* both with a quote in their text.
C10_Witness ==
    \E t \in Tasks :
        /\ hs[t].pc = "ret"
        /\ hs[t].out = "ok"
        /\ Truthy(hs[t].content)
        /\ find(hs[t].resp, <<"\"">>) # -1

\* The text holds neither think tag.
NoTag(s) == find(s, THINK_OPEN) = -1 /\ find(s, THINK_CLOSE) = -1

\* The text outside the reasoning segments of s: every segment from an opening tag
\* to the next closing tag is taken out, both tags included.
RECURSIVE Outside(_)
Outside(s) ==
    LET a == find(s, THINK_OPEN)
        rest == From(s, a + Len(THINK_OPEN))
        b == find(rest, THINK_CLOSE)
    IN  IF a = -1 \/ b = -1
        THEN s
        ELSE Upto(s, a) \o Outside(From(rest, b + Len(THINK_CLOSE)))

\* C11: for a completion text whose tags pair up into reasoning segments, the
\* cleaned reply is the text outside the segments, in its order and trimmed: it
\* holds no tag and no text of any segment.
C11_ReasoningStrip ==
    \A t \in Tasks :
        (hs[t].pc = "saving" /\ NoTag(Outside(hs[t].raw))) =>
            /\ NoTag(hs[t].resp)
            /\ hs[t].resp = strip(Outside(hs[t].raw))

\* The text holds a reasoning segment: an opening tag with a closing tag after it.
HasSegment(s) == Outside(s) # s

\* C12 as stated: a completion text without a reasoning segment is returned
\* unchanged but for the trimming of leading and trailing whitespace.
C12_NoSegmentUnchanged ==
    \A t \in Tasks :
        (hs[t].pc = "saving" /\ ~HasSegment(hs[t].raw)) => hs[t].resp = strip(hs[t].raw)

\* C12: a completion text that holds neither think tag is returned unchanged but
\* for the trimming of leading and trailing whitespace.
C12_NoTagUnchanged ==
    \A t \in Tasks :
        (hs[t].pc = "saving" /\ NoTag(hs[t].raw)) => hs[t].resp = strip(hs[t].raw)

\* C12 witness: a text without tags, with half a tag and a blank kept inside it, is
\* returned trimmed.
C12_Witness ==
    \E t \in Tasks :
        /\ hs[t].pc = "saving"
        /\ NoTag(hs[t].raw)
        /\ hs[t].resp # hs[t].raw
        /\ find(hs[t].resp, <<"<", "t", "h", "i", " ">>) # -1

\* The message at the end of the transcript.
Last(h) == h[Len(h)]

\* The content c frames the utterance of task t as a reply: it names the acting
\* user and the author replied to, and carries the content replied to and the
\* utterance, each under its own label.
ReplyFramed(c, t) ==
    /\ find(c, <<"The user '">> \o Sam \o <<"' replied to a message by '">>
                    \o hs[t].author.s \o <<"'.">>) # -1
    /\ find(c, <<"Original message: '">> \o hs[t].content.s \o <<"'">>) # -1
    /\ find(c, <<"User's reply: '">> \o hs[t].um \o <<"'">>) # -1

\* C13 as stated: the user turn just appended has role user; it is reply-framed when
\* the content and the author replied to are both present, and is
\* username ">" user_message in every other case.
C13_FramingWhenPresent ==
    \A t \in Tasks :
        hs[t].pc = "appended" =>
            /\ Last(chat_history)[ROLE] = USER
            /\ IF hs[t].content.some /\ hs[t].author.some
               THEN ReplyFramed(Last(chat_history)[CONTENT], t)
               ELSE Last(chat_history)[CONTENT] = Sam \o <<">">> \o hs[t].um

\* C13: the user turn just appended has role user; it is reply-framed when the
\* content and the author replied to are both present and not empty, and is
\* username ">" user_message in every other case.
C13_FramingWhenNonEmpty ==
    \A t \in Tasks :
        hs[t].pc = "appended" =>
            /\ Last(chat_history)[ROLE] = USER
            /\ IF hs[t].content.some /\ hs[t].content.s # <<>>
                  /\ hs[t].author.some /\ hs[t].author.s # <<>>
               THEN ReplyFramed(Last(chat_history)[CONTENT], t)
               ELSE Last(chat_history)[CONTENT] = Sam \o <<">">> \o hs[t].um

\* C13 witness: the user turn of a reply to a message with a text has been appended.
C13_Witness ==
    \E t \in Tasks :
        /\ hs[t].pc = "appended"
        /\ hs[t].content = Some(Greeting)
        /\ hs[t].author = Some(Bob)
        /\ Last(chat_history)[CONTENT] # Sam \o <<">">> \o hs[t].um

\* The completion call of task t has answered: chat_with_history is at its save or
\* get_response has returned the reply.
Succeeded(t) ==
    hs[t].pc = "saving" \/ (hs[t].pc = "ret" /\ hs[t].out \in {"ok", "unsaved"})

\* A completion text with a reasoning segment before the reply proper.
PlanThenReply == THINK_OPEN \o <<"p">> \o THINK_CLOSE \o <<" ", "r", "1", "\"">>

C15_PersistedOnSuccess ==
    \A t \in Tasks :
        (hs[t].pc = "ret" /\ hs[t].out = "ok") =>
            /\ file = File(json_dump(Retain(BeforeRetention(t))))
            /\ chat_history = Retain(BeforeRetention(t))

\* C15 witness: a successful call that evicted a message has saved and returned.
C15_Witness ==
    \E t \in Tasks :
        /\ hs[t].pc = "ret"
        /\ hs[t].out = "ok"
        /\ Len(BeforeRetention(t)) > max_history + 1
        /\ file.kind = "file"
        /\ Len(chat_history) = max_history + 1

\* C16: whenever get_response has returned, after a success or a failure, and no
\* write of the file has failed or been interrupted (no fault at all, or the failed
\* completion call of this very return as the only one), a load of the file gives
\* the transcript in memory.
C16_PersistedAfterEachCall ==
    \A t \in Tasks :
        (/\ hs[t].pc = "ret"
         /\ file.kind # "dir"
         /\ nrestarts = 0
         /\ nfaults = 0 \/ (nfaults = 1 /\ FailedReturn(t))) =>
            load_history(file).history = chat_history

\* C17: when the write of the file fails, get_response still returns the cleaned
\* reply, not a notice, and the transcript in memory keeps the user turn and the
\* assistant message of the call.
C17_SaveFailureSwallowed ==
    \A t \in Tasks :
        (hs[t].pc = "ret" /\ hs[t].out = "unsaved") =>
            /\ hs[t].resp = clean_response(extract_response_content(hs[t].raw))
            /\ hs[t].resp \notin {UnexpectedNotice, EmptyInputNotice}
            /\ chat_history = Retain(BeforeRetention(t))
            /\ UserTurn(t) = chat_history[Len(chat_history) - 1]
            /\ Message(ASSISTANT, hs[t].resp) = Last(chat_history)

\* C17 witness: a write that failed part-way has left a truncated file, and
\* get_response has returned the reply.
C17_Witness ==
    \E t \in Tasks :
        /\ hs[t].pc = "ret"
        /\ hs[t].out = "unsaved"
        /\ file.kind = "file"
        /\ ~json_load(file.toks).ok
        /\ hs[t].resp # <<>>

\* C18: the file a save has written holds a list whose first element is the
\* configured directive, followed by at most max_history messages, whatever calls
\* succeeded or failed before.
C18_PersistedShape ==
    \A t \in Tasks :
        (hs[t].pc = "ret" /\ hs[t].out = "ok") =>
            LET r == json_load(file.toks)
            IN  /\ file.kind = "file"
                /\ r.ok
                /\ r.val.k = "list"
                /\ Len(r.val.v) \in 1..(max_history + 1)
                /\ r.val.v[1] = [k |-> "dict", v |-> INITIAL_SYSTEM_PROMPT]
                /\ \A i \in 2..Len(r.val.v) :
                      /\ r.val.v[i].k = "dict"
                      /\ r.val.v[i].v[ROLE] \in {USER, ASSISTANT}

\* C18 witness: a save after a failed call had left the transcript at more than
\* max_history + 1 messages.
C18_Witness ==
    \E t \in Tasks :
        /\ hs[t].pc = "ret"
        /\ hs[t].out = "ok"
        /\ Len(hs[t].pre) > max_history
        /\ Last(hs[t].pre)[ROLE] = USER
        /\ Len(Conversational(file)) = max_history

\* C19: no exception leaves get_response; when it has returned, its result is the
\* empty-input notice, a failure notice or the cleaned reply, whatever the
\* completion call and the write of the file did.
C19_TotalEntryPoint ==
    \A t \in Tasks :
        /\ hs[t].out # "raised"
        /\ hs[t].pc = "ret" =>
              \/ hs[t].out = "blank" /\ hs[t].resp = EmptyInputNotice
              \/ hs[t].out = "empty" /\ hs[t].resp = InvalidInput(NoResponseError)
              \/ hs[t].out = "error" /\ hs[t].resp = UnexpectedNotice
              \/ /\ hs[t].out \in {"ok", "unsaved"}
                 /\ hs[t].resp = clean_response(extract_response_content(hs[t].raw))

\* C19 witness: the completion call has raised an error of the client and
\* get_response has returned its notice to a handler of on_message.
C19_Witness ==
    \E t \in Tasks :
        /\ hs[t].pc = "ret"
        /\ hs[t].out = "error"
        /\ hs[t].ev.kind = "on_message"
        /\ hs[t].resp = UnexpectedNotice

\* C20: when a call finds its own framed user turn, unanswered, at the end of the
\* transcript (the call before it failed on the same utterance and this one is the
\* retry), the transcript holds that user turn once from the append on.
C20_NoDuplicateOnRetry ==
    \A t \in Tasks :
        (/\ hs[t].pc \in {"appended", "saving", "ret"}
         /\ hs[t].pre # <<>>
         /\ Last(hs[t].pre) = UserTurn(t)) =>
            Cardinality({i \in DOMAIN chat_history : chat_history[i] = UserTurn(t)}) = 1

\* The tags of s form no well-ordered pair: an opening tag only, a closing tag
\* only, or the first closing tag before the first opening tag.
Malformed(s) ==
    LET a == find(s, THINK_OPEN)
        b == find(s, THINK_CLOSE)
    IN  \/ a # -1 /\ b = -1
        \/ a = -1 /\ b # -1
        \/ a # -1 /\ b # -1 /\ b < a

\* C21: for a completion text whose tags form no well-ordered pair, the cleaned
\* reply is the text with every tag occurrence deleted, trimmed: nothing of the
\* text is duplicated or dropped.
C21_MalformedTags ==
    \A t \in Tasks :
        (hs[t].pc = "saving" /\ Malformed(hs[t].raw)) =>
            hs[t].resp = strip(replace(replace(hs[t].raw, THINK_OPEN), THINK_CLOSE))

\* C24: the cleaned reply of a completion text is a fixed point of the cleaning
\* step: cleaning it once more returns it unchanged.
C24_CleaningIdempotent ==
    \A t \in Tasks :
        hs[t].pc = "saving" =>
            clean_response(extract_response_content(hs[t].resp)) = hs[t].resp

\* The on_message event is one the gate is to stop: written by the bot itself, sent
\* outside the channel, starting with "!ignore" once trimmed, holding the
\* prohibited pair, or filler.
Gated(ev) ==
    /\ ev.kind = "on_message"
    /\ \/ ev.frombot
       \/ ~ev.inchan
       \/ startswith(strip(ev.text), <<"!", "i", "g", "n", "o", "r", "e">>)
       \/ Prohibited(ev.text)
       \/ Filler(ev.text)

\* C22: the handler of such an event never gets to the call of get_response: past
\* the wait to run and the wait for fetch_message no task holds such an event, so
\* none appends to the transcript, calls the completion API or saves for it.
C22_InboundGate ==
    \A t \in Tasks : hs[t].pc \notin {"recv", "fetch"} => ~Gated(hs[t].ev)

\* C22 witness: a message of the bot itself is delivered after the bot has answered
\* an utterance.
C22_Witness ==
    \E t \in Tasks :
        /\ hs[t].pc = "recv"
        /\ hs[t].ev.frombot
        /\ hs[t].ev.inchan
        /\ api_calls = 1
        /\ Len(chat_history) = 3

\* C23: while the process is up, every assistant message of the transcript comes
\* right after a user message, after successful and failed calls and evictions.
C23_TurnPairing ==
    proc = "up" =>
        \A i \in 1..Len(chat_history) :
            chat_history[i][ROLE] = ASSISTANT =>
                i > 1 /\ chat_history[i - 1][ROLE] = USER
====
